---- MODULE Spec2Model ----
(***************************************************************************)
(* Model of src/display.rs of tuibricks: the line/header/clear rendering   *)
(* primitives, the mode renderer and the four blocking prompts.            *)
(*                                                                         *)
(* A text is a sequence of one-character strings, so that splitting on     *)
(* newline, trimming and parsing are computed character by character.      *)
(* The output sink W is a queue of pending terminal commands; a flush      *)
(* applies the queued commands to the terminal and empties the queue.      *)
(* The input is read item by item, a line or a key; where it is not fixed  *)
(* in advance any item may come.                                           *)
(***************************************************************************)
EXTENDS Integers, Sequences, FiniteSets

VARIABLES
    pc,       \* where the current call stands: "idle" or a blocking read
    call,     \* the function called last and its arguments
    queue,    \* W: the commands queued and not yet flushed
    term,     \* the terminal: colour, screen rows, cursor
    result,   \* the value the last call returned
    log,      \* the I/O steps of the current call, in order
    history,  \* the calls made so far, the controller's flushes included
    nreads,   \* input items consumed so far
    stdin     \* the input still to come, as far as it is fixed in advance

vars == <<pc, call, queue, term, result, log, history, nreads, stdin>>

(***************************************************************************)
(* Bounds of the model.                                                    *)
(***************************************************************************)
MaxRenders == 2
MaxPrompts == 1
MaxReads == 3
MaxRow == 6

(***************************************************************************)
(* Text helpers.                                                           *)
(***************************************************************************)
Min(a, b) == IF a < b THEN a ELSE b

Max(a, b) == IF a > b THEN a ELSE b

\* char::is_whitespace, on the characters the model uses
Whitespace == {" ", "\t", "\n", "\r"}

DigitChars == <<"0", "1", "2", "3", "4", "5", "6", "7", "8", "9">>

IsDigit(c) == \E i \in 1..10 : DigitChars[i] = c

DigitVal(c) == (CHOOSE i \in 1..10 : DigitChars[i] = c) - 1

\* A u32 value v is held as [hi, lo] with v = hi * 100000 + lo and
\* lo < 100000: TLC's integers are narrower than 32 unsigned bits.
U32(hi, lo) == [hi |-> hi, lo |-> lo]

U32Max == U32(42949, 67295)

U32Le(a, b) == a.hi < b.hi \/ (a.hi = b.hi /\ a.lo <= b.lo)

\* acc * 10 + d, unchecked
MulAdd(acc, d) ==
    U32(acc.hi * 10 + ((acc.lo * 10 + d) \div 100000),
        (acc.lo * 10 + d) % 100000)

\* str::split("\n"): the segments between newlines; n newlines give n + 1
\* segments, so the empty text gives one empty segment.
RECURSIVE Split(_)
Split(s) ==
    IF \E i \in 1..Len(s) : s[i] = "\n"
    THEN LET i == CHOOSE j \in 1..Len(s) :
                      s[j] = "\n" /\ \A k \in 1..(j - 1) : s[k] # "\n"
         IN  <<SubSeq(s, 1, i - 1)>> \o Split(SubSeq(s, i + 1, Len(s)))
    ELSE <<s>>

RECURSIVE TrimStart(_)
TrimStart(s) ==
    IF s # <<>> /\ Head(s) \in Whitespace THEN TrimStart(Tail(s)) ELSE s

RECURSIVE TrimEnd(_)
TrimEnd(s) ==
    IF s # <<>> /\ s[Len(s)] \in Whitespace
    THEN TrimEnd(SubSeq(s, 1, Len(s) - 1))
    ELSE s

\* Faulty variant: only the leading whitespace is removed.
Trim_StartOnly(s) == TrimStart(s)

\* str::trim
Trim(s) == TrimEnd(TrimStart(s))

\* The digit loop of u32::from_str: checked multiply and add, left to right.
RECURSIVE ParseDigits(_, _)
ParseDigits(s, acc) ==
    IF s = <<>> THEN [ok |-> TRUE, val |-> acc]
    ELSE IF ~IsDigit(Head(s)) THEN [ok |-> FALSE, val |-> U32(0, 0)]
    ELSE LET v == MulAdd(acc, DigitVal(Head(s)))
         IN  IF ~U32Le(v, U32Max) THEN [ok |-> FALSE, val |-> U32(0, 0)]
             ELSE ParseDigits(Tail(s), v)

\* str::parse::<u32>: an optional leading "+", then one or more digits;
\* a leading "-" is an invalid digit for an unsigned type.
ParseU32(s) ==
    LET body == IF s # <<>> /\ Head(s) = "+" THEN Tail(s) ELSE s
    IN  IF body = <<>> THEN [ok |-> FALSE, val |-> U32(0, 0)]
        ELSE ParseDigits(body, U32(0, 0))

(***************************************************************************)
(* Terminal commands (crossterm) and what a terminal does with them.       *)
(***************************************************************************)
Cmd(op, text, n, m) == [op |-> op, text |-> text, n |-> n, m |-> m]

PrintCmd(t) == Cmd("Print", t, 0, 0)

MoveToNextLine(k) == Cmd("MoveToNextLine", <<>>, k, 0)

MoveToPreviousLine(k) == Cmd("MoveToPreviousLine", <<>>, k, 0)

ClearCurrentLine == Cmd("ClearCurrentLine", <<>>, 0, 0)

ClearAll == Cmd("ClearAll", <<>>, 0, 0)

ResetColor == Cmd("ResetColor", <<>>, 0, 0)

Hide == Cmd("Hide", <<>>, 0, 0)

Show == Cmd("Show", <<>>, 0, 0)

MoveTo(c, r) == Cmd("MoveTo", <<>>, c, r)

NoCmd == Cmd("None", <<>>, 0, 0)

Rows == 0..MaxRow

BlankScreen == [r \in Rows |-> <<>>]

\* Writing text t into a row at column col overwrites the cells it covers.
Overwrite(line, col, t) ==
    [i \in 1..Max(Len(line), col + Len(t)) |->
        IF i > col /\ i <= col + Len(t) THEN t[i - col]
        ELSE IF i <= Len(line) THEN line[i]
        ELSE " "]

\* A line feed on the last row scrolls the screen up by one row.
LineFeed(t) ==
    IF t.row < MaxRow
    THEN [t EXCEPT !.row = @ + 1, !.col = 0]
    ELSE [t EXCEPT !.col = 0,
                   !.screen = [r \in Rows |->
                                  IF r < MaxRow THEN t.screen[r + 1] ELSE <<>>]]

\* Newline-free text written at the cursor.
PutText(t, s) ==
    [t EXCEPT !.screen[t.row] = Overwrite(@, t.col, s), !.col = @ + Len(s)]

\* Text written at the cursor; a newline inside it is a line feed.
RECURSIVE PutSegments(_, _)
PutSegments(t, segs) ==
    IF Len(segs) = 1 THEN PutText(t, segs[1])
    ELSE PutSegments(LineFeed(PutText(t, Head(segs))), Tail(segs))

Apply(t, c) ==
    CASE c.op = "Print" -> PutSegments(t, Split(c.text))
      [] c.op = "MoveToNextLine" ->
           [t EXCEPT !.row = Min(@ + c.n, MaxRow), !.col = 0]
      [] c.op = "MoveToPreviousLine" ->
           [t EXCEPT !.row = Max(@ - c.n, 0), !.col = 0]
      [] c.op = "ClearCurrentLine" ->
           [t EXCEPT !.screen[t.row] = <<>>]
      [] c.op = "ClearAll" ->
           [t EXCEPT !.screen = BlankScreen]
      [] c.op = "ResetColor" ->
           [t EXCEPT !.colour = "default"]
      [] c.op = "Hide" ->
           [t EXCEPT !.visible = FALSE]
      [] c.op = "Show" ->
           [t EXCEPT !.visible = TRUE]
      [] c.op = "MoveTo" ->
           [t EXCEPT !.col = c.n, !.row = Min(c.m, MaxRow)]
      [] OTHER -> t

RECURSIVE ApplyAll(_, _)
ApplyAll(t, cs) ==
    IF cs = <<>> THEN t ELSE ApplyAll(Apply(t, Head(cs)), Tail(cs))

\* The terminal echoes a line typed in line-buffered mode: its characters,
\* then the line feed of the Enter key (none when the input ended instead).
Echo(t, line) == PutSegments(t, Split(line))

(***************************************************************************)
(* The commands each rendering function queues, in order, when no queue    *)
(* step fails.                                                             *)
(***************************************************************************)
DashWidth == 45

DashLine == [i \in 1..DashWidth |-> "-"]

U32Hint ==
    <<"(", "I", "n", "p", "u", "t", " ", "s", "h", "o", "u", "l", "d",
      " ", "b", "e", " ", "a", " ", "n", "u", "m", "b", "e", "r", ")">>

ConfirmHint ==
    <<"(", "y", ")", "e", "s", " ", "o", "r", " ", "(", "n", ")", "o",
      "?">>

SelectHint ==
    <<"S", "e", "l", "e", "c", "t", " ", "f", "r", "o", "m", " ", "t",
      "h", "e", " ", "l", "i", "s", "t", " ", "b", "y", " ", "t", "y",
      "p", "i", "n", "g", " ", "t", "h", "e", " ", "l", "e", "t", "t",
      "e", "r">>

WelcomeTitle ==
    <<"W", "e", "l", "c", "o", "m", "e", " ", "t", "o", " ", "T", "U",
      "I", " ", "B", "r", "i", "c", "k", "s">>

ViewingPrefix ==
    <<"V", "i", "e", "w", "i", "n", "g", " ", "i", "t", "e", "m", " ",
      "w", "i", "t", "h", " ", "p", "a", "r", "t", " ", "I", "D", " ">>

EditingPrefix ==
    <<"N", "o", "w", " ", "e", "d", "i", "t", "i", "n", "g", " ", "i",
      "t", "e", "m", " ", "w", "i", "t", "h", " ", "p", "a", "r", "t",
      " ", "I", "D", " ">>

EditHint ==
    <<"u", "s", "e", " ", "a", "n", "y", " ", "o", "f", " ", "t", "h",
      "e", " ", "f", "o", "l", "l", "o", "w", "i", "n", "g", " ", "c",
      "o", "m", "m", "a", "n", "d", "s", " ", "t", "o", " ", "e", "d",
      "i", "t", " ", "t", "h", "e", " ", "i", "t", "e", "m">>

emit_line(line) == <<PrintCmd(line), MoveToNextLine(1)>>

emit_dash == emit_line(DashLine)

\* Faulty variant: an empty line is skipped.
RECURSIVE emit_iter_SkipEmpty(_)
emit_iter_SkipEmpty(lines) ==
    IF lines = <<>> THEN <<>>
    ELSE (IF Head(lines) = <<>> THEN <<>>
          ELSE <<PrintCmd(Head(lines)), MoveToNextLine(1)>>)
         \o emit_iter_SkipEmpty(Tail(lines))

RECURSIVE emit_iter(_)
emit_iter(lines) ==
    IF lines = <<>> THEN <<>>
    ELSE <<PrintCmd(Head(lines)), MoveToNextLine(1)>> \o emit_iter(Tail(lines))

\* Faulty variant: no blank line after the closing separator.
header_NoBlank(t) == emit_dash \o emit_iter(Split(t)) \o emit_dash

header(t) ==
    emit_dash \o emit_iter(Split(t)) \o emit_dash \o <<MoveToNextLine(1)>>

\* Faulty variant: the header is drawn without its title.
default_header_Untitled == header(<<>>)

default_header == header(WelcomeTitle)

\* Faulty variant: the cursor is left where it is.
clear_NoMoveTo == <<ResetColor, ClearAll, Hide>>

clear == <<ResetColor, ClearAll, Hide, MoveTo(0, 0)>>

\* Faulty variant: the instruction line of EditItem comes before the item.
emit_mode_match_HintFirst(mode) ==
    CASE mode.kind = "Default" ->
           default_header \o <<PrintCmd(mode.info), MoveToNextLine(2)>>
      [] mode.kind = "DisplayItem" ->
           header(ViewingPrefix \o mode.item.id)
           \o emit_iter(Split(mode.item.text))
      [] mode.kind = "EditItem" ->
           header(EditingPrefix \o mode.item.id)
           \o emit_line(EditHint)
           \o emit_iter(Split(mode.item.text))

\* The match of emit_mode on the mode
emit_mode_match(mode) ==
    CASE mode.kind = "Default" ->
           default_header \o <<PrintCmd(mode.info), MoveToNextLine(2)>>
      [] mode.kind = "DisplayItem" ->
           header(ViewingPrefix \o mode.item.id)
           \o emit_iter(Split(mode.item.text))
      [] mode.kind = "EditItem" ->
           header(EditingPrefix \o mode.item.id)
           \o emit_iter(Split(mode.item.text))
           \o emit_line(EditHint)

\* Faulty variant: the frame is queued without the clear before it.
emit_mode_NoClear(mode) == emit_mode_match(mode)

emit_mode(mode) == clear \o emit_mode_match(mode)

\* Faulty variant: the cursor is not shown.
input_u32_emit_NoShow(text) == emit_iter(Split(text)) \o emit_line(U32Hint)

\* What the prompts queue before their first flush.
input_u32_emit(text) == emit_iter(Split(text)) \o emit_line(U32Hint) \o <<Show>>

input_string_emit(text) == emit_iter(Split(text)) \o <<Show>>

confirmation_prompt_emit(text) ==
    emit_iter(Split(text)) \o emit_line(ConfirmHint)

\* Faulty variant: format!("{}:{}", c, d)
OptionLine_NoSpace(o) == <<o.key>> \o <<":">> \o o.label

\* format!("{}: {}", c, d)
OptionLine(o) == <<o.key>> \o <<":", " ">> \o o.label

RECURSIVE OptionLines(_)
OptionLines(options) ==
    IF options = <<>> THEN <<>>
    ELSE emit_line(OptionLine(Head(options))) \o OptionLines(Tail(options))

select_from_list_emit(text, options) ==
    emit_iter(Split(text)) \o emit_line(SelectHint)
    \o <<MoveToNextLine(1)>> \o OptionLines(options)

\* Faulty variant: the retry moves up two lines and clears the hint line.
EraseCmds_UpTwo == <<MoveToPreviousLine(2), ClearCurrentLine>>

\* Faulty variant: the retry clears the line the cursor is on, without moving up.
EraseCmds_NoMoveUp == <<ClearCurrentLine>>

\* The erase of input_u32's retry
EraseCmds == <<MoveToPreviousLine(1), ClearCurrentLine>>

(***************************************************************************)
(* The inputs the model draws from.                                        *)
(***************************************************************************)
Texts ==
    { <<>>, <<"A", "\n", "B">>, <<"A", "\n">> }

PromptTexts == { <<"Q">>, <<"Q", "\n", "R">> }

\* What read_line can return: the line with its newline, or the empty text
\* at the end of the input.
Lines ==
    { <<"a", "b", "c", "\n">>,
      <<"-", "5", "\n">>,
      <<"4", "2", "\n">>,
      <<" ", " ", "h", "i", " ", "t", "h", "e", "r", "e", " ", " ",
        "\n">>,
      <<" ", "\t", "\n">>,
      <<"+", "7", "\n">>,
      <<"4", "2", "9", "4", "9", "6", "7", "2", "9", "6", "\n">>,
      <<"4", "2", "9", "4", "9", "6", "7", "2", "9", "5", "\n">>,
      <<>> }

\* What wait_for_char can return.
Keys == {"x", "Y", "y", "n", "a", "b"}

\* Input fixed in advance, as its characters: lines for the line reads and
\* keys for the key reads, one after the other.
Streams ==
    { <<"x", "\n", "7", "\n", "y", "n">>,
      <<"4", "2", "\n", "-", "5", "\n">>,
      <<"x", "a", "y", "\n">>,
      <<"b", "n">> }

Opt(k, l) == [key |-> k, label |-> l]

Apples == <<"A", "p", "p", "l", "e", "s">>

Bananas == <<"B", "a", "n", "a", "n", "a", "s">>

Avocado == <<"A", "v", "o", "c", "a", "d", "o">>

OptionLists ==
    { <<Opt("a", Apples), Opt("b", Bananas)>>,
      <<Opt("a", Apples), Opt("a", Avocado)>>,
      <<Opt("b", Bananas), Opt("a", Apples), Opt("b", Avocado)>>,
      <<>> }

NoItem == [id |-> <<>>, text |-> <<>>]

Items ==
    { [id |-> <<"3", "0", "0", "1">>, text |-> <<"r", "e", "d", "\n", "2", "x", "4">>] }

Mode(kind, info, item) == [kind |-> kind, info |-> info, item |-> item]

NoMode == Mode("None", <<>>, NoItem)

Modes ==
    { Mode("Default", i, NoItem) : i \in {<<"h", "i">>} }
    \cup { Mode(k, <<>>, it) : k \in {"DisplayItem", "EditItem"}, it \in Items }

(***************************************************************************)
(* State.                                                                  *)
(***************************************************************************)
Call(fn, text, options, mode) ==
    [fn |-> fn, text |-> text, options |-> options, mode |-> mode]

Result(kind, u32, text, flag) ==
    [kind |-> kind, u32 |-> u32, text |-> text, flag |-> flag]

NoResult == Result("none", U32(0, 0), <<>>, FALSE)

Err == Result("Err", U32(0, 0), <<>>, FALSE)

OkUnit == Result("Ok", U32(0, 0), <<>>, FALSE)

OkU32(v) == Result("Ok", v, <<>>, FALSE)

OkText(s) == Result("Ok", U32(0, 0), s, FALSE)

OkBool(b) == Result("Ok", U32(0, 0), <<>>, b)

\* One I/O step of a call: a command queued, a flush, an item read, or the
\* step that failed.
Ev(ev, cmd, item) == [ev |-> ev, cmd |-> cmd, item |-> item]

StaleScreen ==
    [r \in Rows |-> IF r = 0 THEN <<"o", "l", "d">>
                    ELSE IF r = MaxRow THEN <<"z">> ELSE <<>>]

Term(colour, screen, visible, row, col) ==
    [colour |-> colour, screen |-> screen, visible |-> visible,
     row |-> row, col |-> col]

\* Any colour state, screen content, cursor visibility and cursor position
InitTerms ==
    { Term(c, s, v, p[1], p[2]) :
        c \in {"default", "red"}, s \in {BlankScreen, StaleScreen},
        v \in BOOLEAN, p \in {<<0, 0>>, <<2, 3>>} }

InitWith(terms, queues, inputs) ==
    /\ pc = "idle"
    /\ call = Call("none", <<>>, <<>>, NoMode)
    /\ queue \in queues
    /\ term \in terms
    /\ result = NoResult
    /\ log = <<>>
    /\ history = <<>>
    /\ nreads = 0
    /\ stdin \in inputs

Init == InitWith(InitTerms, {<<>>}, {<<>>})

\* A prompt is called on a fresh terminal with an empty sink, or on a used
\* one with a command of an earlier render still queued.
InitPrompt ==
    \/ InitWith({Term("default", BlankScreen, FALSE, 0, 0)}, {<<>>}, {<<>>})
    \/ InitWith({Term("red", StaleScreen, TRUE, 2, 3)}, {<<PrintCmd(<<"p">>)>>},
                {<<>>})

(***************************************************************************)
(* I/O steps.  Every queue!, flush and read returns io::Result and is      *)
(* followed by `?`: its failure is the call's return value.                *)
(***************************************************************************)
\* Faulty variant: a failing command is skipped and the rest is queued.
Queued_IgnoreFailure(cmds, f) ==
    SubSeq(cmds, 1, f) \o SubSeq(cmds, f + 2, Len(cmds))

\* queue!(w, c1, ..., cn) where the command after the first f fails
\* (f = n: none fails): the commands that reach the queue.
Queued(cmds, f) == SubSeq(cmds, 1, f)

\* The steps of that queue!, in order: the commands queued, and the failure
\* in its place.
QueueSteps(cmds, f) ==
    LET q == Queued(cmds, f)
    IN  [i \in 1..Min(f, Len(q)) |-> Ev("queue", q[i], <<>>)]
        \o (IF f < Len(cmds) THEN <<Ev("queue_err", cmds[f + 1], <<>>)>>
            ELSE <<>>)
        \o [i \in 1..(Len(q) - Min(f, Len(q))) |-> Ev("queue", q[f + i], <<>>)]

\* w.flush(): every queued command reaches the terminal; a failing flush
\* has written some prefix of the queue.
FlushOutcomes(t, q) ==
    { [ok |-> TRUE, term |-> ApplyAll(t, q), queue |-> <<>>] }
    \cup { [ok |-> FALSE, term |-> ApplyAll(t, SubSeq(q, 1, k)),
            queue |-> SubSeq(q, k + 1, Len(q))] : k \in 0..Len(q) }

\* Faulty variant: queue! in the place of execute!, nothing is flushed.
execute_flush_QueueOnly(t, q) == { [ok |-> TRUE, term |-> t, queue |-> q] }

\* execute!: the commands are queued, then the sink is flushed.
execute_flush(t, q) == FlushOutcomes(t, q)

FlushStep(fo) == Ev(IF fo.ok THEN "flush" ELSE "flush_err", NoCmd, <<>>)

\* Faulty variant: the read takes the whole input that is there.
TakeLine_All(buf) == [item |-> buf, rest |-> <<>>]

\* The first line of the input, its newline included; if the input ends
\* without a newline, what is left of it.
TakeLine(buf) ==
    IF \E i \in 1..Len(buf) : buf[i] = "\n"
    THEN LET i == CHOOSE j \in 1..Len(buf) :
                      buf[j] = "\n" /\ \A k \in 1..(j - 1) : buf[k] # "\n"
         IN  [item |-> SubSeq(buf, 1, i), rest |-> SubSeq(buf, i + 1, Len(buf))]
    ELSE [item |-> buf, rest |-> <<>>]

\* The first key of the input
TakeKey(buf) == [item |-> <<Head(buf)>>, rest |-> Tail(buf)]

\* stdin().read_line(): a line, or an I/O error.  Where no input is fixed
\* in advance, any line may come.
read_line(buf) ==
    (IF buf = <<>>
     THEN { [ok |-> TRUE, item |-> l, rest |-> <<>>] : l \in Lines }
     ELSE { [ok |-> TRUE, item |-> TakeLine(buf).item,
             rest |-> TakeLine(buf).rest] })
    \cup { [ok |-> FALSE, item |-> <<>>, rest |-> buf] }

\* io::wait_for_char(): one key, read without echo, or an I/O error
wait_for_char(buf) ==
    (IF buf = <<>>
     THEN { [ok |-> TRUE, item |-> <<k>>, rest |-> <<>>] : k \in Keys }
     ELSE { [ok |-> TRUE, item |-> TakeKey(buf).item,
             rest |-> TakeKey(buf).rest] })
    \cup { [ok |-> FALSE, item |-> <<>>, rest |-> buf] }

ReadStep(rd) == Ev(IF rd.ok THEN "read" ELSE "read_err", NoCmd, rd.item)

\* The controller makes no further call once a call has returned an error.
IsCall(fn) == fn # "flush"

NCalls == Len(SelectSeq(history, IsCall))

CanCall(max) == pc = "idle" /\ result.kind # "Err" /\ NCalls < max

CanRead(rd) == rd.ok => nreads < MaxReads

(***************************************************************************)
(* Rendering calls.                                                        *)
(***************************************************************************)
Render(c, cmds) ==
    /\ \E f \in 0..Len(cmds) :
         /\ queue' = queue \o Queued(cmds, f)
         /\ log' = QueueSteps(cmds, f)
         /\ result' = IF f < Len(cmds) THEN Err ELSE OkUnit
    /\ call' = c
    /\ pc' = "idle"
    /\ history' = Append(history, c.fn)
    /\ UNCHANGED <<term, nreads, stdin>>

call_clear ==
    /\ CanCall(MaxRenders)
    /\ Render(Call("clear", <<>>, <<>>, NoMode), clear)

call_header ==
    /\ CanCall(MaxRenders)
    /\ \E t \in Texts : Render(Call("header", t, <<>>, NoMode), header(t))

\* emit_iter called on the lines of a text
call_emit_iter ==
    /\ CanCall(MaxRenders)
    /\ \E t \in Texts :
         Render(Call("emit_iter", t, <<>>, NoMode), emit_iter(Split(t)))

call_emit_mode ==
    /\ CanCall(MaxRenders)
    /\ \E m \in Modes : Render(Call("emit_mode", <<>>, <<>>, m), emit_mode(m))

\* The controller's own flush of the sink, between calls.
call_flush ==
    /\ pc = "idle"
    /\ result.kind # "Err"
    /\ queue # <<>>
    /\ \E fo \in FlushOutcomes(term, queue) :
         /\ term' = fo.term
         /\ queue' = fo.queue
         /\ log' = Append(log, FlushStep(fo))
         /\ result' = IF fo.ok THEN result ELSE Err
    /\ history' = Append(history, "flush")
    /\ UNCHANGED <<pc, call, nreads, stdin>>

(***************************************************************************)
(* Prompts.                                                                *)
(***************************************************************************)
\* Up to the first read: queue the prompt, flush, block on the input.
Prologue(c, cmds, readpc) ==
    /\ call' = c
    /\ history' = Append(history, c.fn)
    /\ UNCHANGED <<nreads, stdin>>
    /\ \E f \in 0..Len(cmds) :
         IF f < Len(cmds)
         THEN /\ queue' = queue \o Queued(cmds, f)
              /\ log' = QueueSteps(cmds, f)
              /\ result' = Err
              /\ pc' = "idle"
              /\ term' = term
         ELSE \E fo \in FlushOutcomes(term, queue \o Queued(cmds, f)) :
                /\ queue' = fo.queue
                /\ term' = fo.term
                /\ log' = QueueSteps(cmds, f) \o <<FlushStep(fo)>>
                /\ result' = IF fo.ok THEN NoResult ELSE Err
                /\ pc' = IF fo.ok THEN readpc ELSE "idle"

\* Faulty variant: the commands are written out before the return, as
\* execute! would.
Return_Flushed(t, steps, cmds, value) ==
    /\ queue' = <<>>
    /\ log' = log \o steps \o QueueSteps(cmds, Len(cmds))
                   \o <<Ev("flush", NoCmd, <<>>)>>
    /\ result' = value
    /\ pc' = "idle"
    /\ term' = ApplyAll(t, queue \o cmds)

\* A step that returns from the call after queueing cmds (no flush).
Return(t, steps, cmds, value) ==
    \E f \in 0..Len(cmds) :
        /\ queue' = queue \o Queued(cmds, f)
        /\ log' = log \o steps \o QueueSteps(cmds, f)
        /\ result' = IF f < Len(cmds) THEN Err ELSE value
        /\ pc' = "idle"
        /\ term' = t

call_input_u32 ==
    /\ CanCall(MaxPrompts)
    /\ \E text \in PromptTexts :
         Prologue(Call("input_u32", text, <<>>, NoMode),
                  input_u32_emit(text), "u32_read")

\* One turn of the loop of input_u32
input_u32_loop ==
    /\ pc = "u32_read"
    /\ UNCHANGED <<call, history>>
    /\ \E rd \in read_line(stdin) :
         /\ CanRead(rd)
         /\ stdin' = rd.rest
         /\ IF ~rd.ok
            THEN /\ Return(term, <<ReadStep(rd)>>, <<>>, Err)
                 /\ UNCHANGED nreads
            ELSE /\ nreads' = nreads + 1
                 /\ LET parsed == ParseU32(Trim(rd.item))
                        echoed == Echo(term, rd.item)
                    IN  IF parsed.ok
                        THEN Return(echoed, <<ReadStep(rd)>>, <<Hide>>,
                                    OkU32(parsed.val))
                        ELSE \E f \in 0..Len(EraseCmds) :
                               IF f < Len(EraseCmds)
                               THEN /\ queue' = queue \o Queued(EraseCmds, f)
                                    /\ log' = log \o <<ReadStep(rd)>>
                                                  \o QueueSteps(EraseCmds, f)
                                    /\ result' = Err
                                    /\ pc' = "idle"
                                    /\ term' = echoed
                               ELSE \E fo \in execute_flush(echoed,
                                               queue \o Queued(EraseCmds, f)) :
                                      /\ queue' = fo.queue
                                      /\ term' = fo.term
                                      /\ log' = log \o <<ReadStep(rd)>>
                                                    \o QueueSteps(EraseCmds, f)
                                                    \o <<FlushStep(fo)>>
                                      /\ result' = IF fo.ok THEN result ELSE Err
                                      /\ pc' = IF fo.ok THEN pc ELSE "idle"

call_input_string ==
    /\ CanCall(MaxPrompts)
    /\ \E text \in PromptTexts :
         Prologue(Call("input_string", text, <<>>, NoMode),
                  input_string_emit(text), "str_read")

\* The read of input_string and what follows it
input_string_read ==
    /\ pc = "str_read"
    /\ UNCHANGED <<call, history>>
    /\ \E rd \in read_line(stdin) :
         /\ CanRead(rd)
         /\ stdin' = rd.rest
         /\ IF ~rd.ok
            THEN /\ Return(term, <<ReadStep(rd)>>, <<>>, Err)
                 /\ UNCHANGED nreads
            ELSE /\ nreads' = nreads + 1
                 /\ Return(Echo(term, rd.item), <<ReadStep(rd)>>, <<Hide>>,
                           OkText(Trim(rd.item)))

call_confirmation_prompt ==
    /\ CanCall(MaxPrompts)
    /\ \E text \in PromptTexts :
         Prologue(Call("confirmation_prompt", text, <<>>, NoMode),
                  confirmation_prompt_emit(text), "conf_read")

\* Faulty variant: the match ignores the case of the key.
confirmation_match_AnyCase(c) ==
    CASE c \in {"y", "Y"} -> [done |-> TRUE, value |-> OkBool(TRUE)]
      [] c \in {"n", "N"} -> [done |-> TRUE, value |-> OkBool(FALSE)]
      [] OTHER -> [done |-> FALSE, value |-> NoResult]

\* The match of confirmation_prompt on the key read
confirmation_match(c) ==
    CASE c = "y" -> [done |-> TRUE, value |-> OkBool(TRUE)]
      [] c = "n" -> [done |-> TRUE, value |-> OkBool(FALSE)]
      [] OTHER -> [done |-> FALSE, value |-> NoResult]

\* Faulty variant: a key that matches nothing has the line above erased, as
\* input_u32 does with a rejected line.
KeyStep_EraseOnMiss(rd, matched) ==
    IF ~rd.ok
    THEN /\ Return(term, <<ReadStep(rd)>>, <<>>, Err)
         /\ UNCHANGED nreads
    ELSE /\ nreads' = nreads + 1
         /\ IF matched.done
            THEN Return(term, <<ReadStep(rd)>>, <<>>, matched.value)
            ELSE /\ log' = log \o <<ReadStep(rd)>>
                               \o QueueSteps(EraseCmds, Len(EraseCmds))
                               \o <<Ev("flush", NoCmd, <<>>)>>
                 /\ term' = ApplyAll(term, queue \o EraseCmds)
                 /\ queue' = <<>>
                 /\ UNCHANGED <<pc, result>>

\* What follows the read of a key: the error returned, the matched value
\* returned, or another turn of the loop with nothing else done.
KeyStep(rd, matched) ==
    IF ~rd.ok
    THEN /\ Return(term, <<ReadStep(rd)>>, <<>>, Err)
         /\ UNCHANGED nreads
    ELSE /\ nreads' = nreads + 1
         /\ IF matched.done
            THEN Return(term, <<ReadStep(rd)>>, <<>>, matched.value)
            ELSE /\ log' = log \o <<ReadStep(rd)>>
                 /\ UNCHANGED <<pc, queue, term, result>>

KeyOf(rd) == IF rd.ok THEN rd.item[1] ELSE ""

\* One turn of the loop of confirmation_prompt
confirmation_prompt_loop ==
    /\ pc = "conf_read"
    /\ UNCHANGED <<call, history>>
    /\ \E rd \in wait_for_char(stdin) :
         /\ CanRead(rd)
         /\ stdin' = rd.rest
         /\ KeyStep(rd, confirmation_match(KeyOf(rd)))

call_select_from_list ==
    /\ CanCall(MaxPrompts)
    /\ \E text \in PromptTexts, options \in OptionLists :
         Prologue(Call("select_from_list", text, options, NoMode),
                  select_from_list_emit(text, options), "sel_read")

\* Faulty variant: with no option to choose from, the call gives up.
select_match_EmptyDone(options, selected) ==
    IF options = <<>> THEN [done |-> TRUE, value |-> OkText(<<>>)]
    ELSE IF \E i \in 1..Len(options) : options[i].key = selected
         THEN [done |-> TRUE,
               value |-> OkText(options[CHOOSE i \in 1..Len(options) :
                                   /\ options[i].key = selected
                                   /\ \A j \in 1..(i - 1) :
                                          options[j].key # selected].label)]
         ELSE [done |-> FALSE, value |-> NoResult]

\* Faulty variant: the loop keeps the last option whose key matches.
RECURSIVE select_match_Last(_, _)
select_match_Last(options, selected) ==
    IF options = <<>> THEN [done |-> FALSE, value |-> NoResult]
    ELSE IF options[Len(options)].key = selected
         THEN [done |-> TRUE, value |-> OkText(options[Len(options)].label)]
         ELSE select_match_Last(SubSeq(options, 1, Len(options) - 1), selected)

\* The for loop of select_from_list over the options, on the key read
RECURSIVE select_match(_, _)
select_match(options, selected) ==
    IF options = <<>> THEN [done |-> FALSE, value |-> NoResult]
    ELSE IF Head(options).key = selected
         THEN [done |-> TRUE, value |-> OkText(Head(options).label)]
         ELSE select_match(Tail(options), selected)

\* One turn of the loop of select_from_list
select_from_list_loop ==
    /\ pc = "sel_read"
    /\ UNCHANGED <<call, history>>
    /\ \E rd \in wait_for_char(stdin) :
         /\ CanRead(rd)
         /\ stdin' = rd.rest
         /\ KeyStep(rd, select_match(call.options, KeyOf(rd)))

NextRender ==
    \/ call_clear
    \/ call_header
    \/ call_emit_iter
    \/ call_emit_mode
    \/ call_flush

NextPrompt ==
    \/ call_input_u32
    \/ input_u32_loop
    \/ call_input_string
    \/ input_string_read
    \/ call_confirmation_prompt
    \/ confirmation_prompt_loop
    \/ call_select_from_list
    \/ select_from_list_loop

\* The rendering functions and the controller's flush, from any terminal
SpecRender == Init /\ [][NextRender]_vars

\* One prompt, from its call to its return
SpecPrompt == InitPrompt /\ [][NextPrompt]_vars

\* A prompt is called with the input fixed in advance.
InitStream ==
    InitWith({Term("default", BlankScreen, FALSE, 0, 0)}, {<<>>}, Streams)

\* A read blocked on the input returns once the input has an item, and the
\* code after it runs: every turn of a prompt that can be taken is taken.
Scheduling ==
    /\ WF_vars(input_u32_loop)
    /\ WF_vars(input_string_read)
    /\ WF_vars(confirmation_prompt_loop)
    /\ WF_vars(select_from_list_loop)

\* One prompt on an input fixed in advance, from its call to its return
SpecStream == InitStream /\ [][NextPrompt]_vars /\ Scheduling

(***************************************************************************)
(* What the log of the current call says.                                  *)
(***************************************************************************)
IsRead(e) == e.ev = "read"

IsFailure(e) == e.ev \in {"queue_err", "flush_err", "read_err"}

\* The items the current call has read, in order
ReadItems ==
    [i \in 1..Len(SelectSeq(log, IsRead)) |-> SelectSeq(log, IsRead)[i].item]

\* The keys the current call has read, in order
ReadKeys == [i \in 1..Len(ReadItems) |-> ReadItems[i][1]]

Failed == \E i \in 1..Len(log) : IsFailure(log[i])

\* The log from the first read on (empty before it)
Body ==
    IF \E i \in 1..Len(log) : log[i].ev \in {"read", "read_err"}
    THEN LET first == CHOOSE i \in 1..Len(log) :
                          /\ log[i].ev \in {"read", "read_err"}
                          /\ \A j \in 1..(i - 1) : log[j].ev \notin {"read", "read_err"}
         IN  SubSeq(log, first, Len(log))
    ELSE <<>>

Parsable(line) == ParseU32(Trim(line)).ok

\* One line-erase-and-retry cycle: the rejected line read, the cursor moved
\* to the previous line, that line cleared, the two commands flushed.
RetryCycle(line) ==
    <<Ev("read", NoCmd, line),
      Ev("queue", MoveToPreviousLine(1), <<>>),
      Ev("queue", ClearCurrentLine, <<>>),
      Ev("flush", NoCmd, <<>>)>>

RECURSIVE RetryCycles(_)
RetryCycles(lines) ==
    IF lines = <<>> THEN <<>>
    ELSE RetryCycle(Head(lines)) \o RetryCycles(Tail(lines))

Front(q) == SubSeq(q, 1, Len(q) - 1)

Last(q) == q[Len(q)]

LineAbc == <<"a", "b", "c", "\n">>

LineMinus5 == <<"-", "5", "\n">>

Line42 == <<"4", "2", "\n">>

LineHiThere ==
    <<" ", " ", "h", "i", " ", "t", "h", "e", "r", "e", " ", " ", "\n">>

(***************************************************************************)
(* C1: when no I/O step fails, input_u32 is still reading exactly while no *)
(* line read so far parses; it returns on the first line whose trimmed     *)
(* text parses as a u32, with that line's value; from its first read on it *)
(* has done one retry cycle (read, move to previous line, clear line,      *)
(* flush) per rejected line, then the accepted read and the hide of the    *)
(* cursor, and nothing else: no other erase and no printed line.  The      *)
(* lines "abc", "-5", "42" return 42 after exactly two cycles.             *)
(***************************************************************************)
C1_FirstParsableLine ==
    (call.fn = "input_u32" /\ ~Failed) =>
        LET items == ReadItems
            n == Len(items)
        IN  /\ pc = "u32_read" =>
                 /\ \A i \in 1..n : ~Parsable(items[i])
                 /\ Body = RetryCycles(items)
            /\ pc = "idle" =>
                 /\ n >= 1
                 /\ \A i \in 1..(n - 1) : ~Parsable(items[i])
                 /\ Parsable(items[n])
                 /\ result = OkU32(ParseU32(Trim(items[n])).val)
                 /\ Body = RetryCycles(Front(items))
                             \o <<Ev("read", NoCmd, items[n]),
                                  Ev("queue", Hide, <<>>)>>
            /\ (n = 3 /\ items = <<LineAbc, LineMinus5, Line42>>) =>
                 /\ pc = "idle"
                 /\ result = OkU32(U32(0, 42))
                 /\ Cardinality({i \in 1..Len(log) :
                                    log[i].cmd = ClearCurrentLine}) = 2

W_C1_AbcMinus5FortyTwo ==
    /\ call.fn = "input_u32"
    /\ ReadItems = <<LineAbc, LineMinus5, Line42>>
    /\ result = OkU32(U32(0, 42))
    /\ pc = "idle"

(***************************************************************************)
(* C2: when no I/O step fails, confirmation_prompt is still reading        *)
(* exactly while no key read so far is lowercase y or n, and it returns on *)
(* the first such key: true for y, false for n.  Every other key,          *)
(* uppercase Y and N included, is ignored.  The keys x, Y, n return false. *)
(***************************************************************************)
C2_FirstYesOrNo ==
    (call.fn = "confirmation_prompt" /\ ~Failed) =>
        LET keys == ReadKeys
            n == Len(keys)
        IN  /\ pc = "conf_read" => \A i \in 1..n : keys[i] \notin {"y", "n"}
            /\ pc = "idle" =>
                 /\ n >= 1
                 /\ \A i \in 1..(n - 1) : keys[i] \notin {"y", "n"}
                 /\ keys[n] \in {"y", "n"}
                 /\ result = OkBool(keys[n] = "y")
            /\ keys = <<"x", "Y", "n">> => (pc = "idle" /\ result = OkBool(FALSE))

W_C2_XUpperYThenN ==
    /\ call.fn = "confirmation_prompt"
    /\ ReadKeys = <<"x", "Y", "n">>
    /\ result = OkBool(FALSE)
    /\ pc = "idle"

HasKey(options, k) == \E i \in 1..Len(options) : options[i].key = k

FirstWithKey(options, k) ==
    CHOOSE i \in 1..Len(options) :
        /\ options[i].key = k
        /\ \A j \in 1..(i - 1) : options[j].key # k

(***************************************************************************)
(* C3: when no I/O step fails, select_from_list is still reading exactly   *)
(* while no key read so far is the key of an option, and it returns on the *)
(* first such key with the label of the first option in list order that    *)
(* has this key; a later option with the same key is never the one         *)
(* returned.  With a: Apples, b: Bananas the keys x, a return Apples and   *)
(* the key b returns Bananas.                                              *)
(***************************************************************************)
C3_FirstOptionOfFirstKey ==
    (call.fn = "select_from_list" /\ ~Failed) =>
        LET keys == ReadKeys
            n == Len(keys)
            opts == call.options
        IN  /\ pc = "sel_read" => \A i \in 1..n : ~HasKey(opts, keys[i])
            /\ pc = "idle" =>
                 /\ n >= 1
                 /\ \A i \in 1..(n - 1) : ~HasKey(opts, keys[i])
                 /\ HasKey(opts, keys[n])
                 /\ result = OkText(opts[FirstWithKey(opts, keys[n])].label)
                 /\ \A j \in 1..Len(opts) :
                        (j > FirstWithKey(opts, keys[n])
                         /\ opts[j].label # opts[FirstWithKey(opts, keys[n])].label)
                        => result.text # opts[j].label
            /\ opts = <<Opt("a", Apples), Opt("b", Bananas)>> =>
                 /\ keys = <<"x", "a">> => (pc = "idle" /\ result = OkText(Apples))
                 /\ keys = <<"b">> => (pc = "idle" /\ result = OkText(Bananas))

W_C3_SharedKey ==
    /\ call.fn = "select_from_list"
    /\ call.options = <<Opt("a", Apples), Opt("a", Avocado)>>
    /\ ReadKeys = <<"x", "a">>
    /\ result = OkText(Apples)
    /\ pc = "idle"

AllWhitespace(s) == \A i \in 1..Len(s) : s[i] \in Whitespace

\* t is s without its leading and its trailing whitespace
IsTrimOf(t, s) ==
    /\ \E a \in 0..Len(s) : \E b \in a..Len(s) :
          /\ t = SubSeq(s, a + 1, b)
          /\ AllWhitespace(SubSeq(s, 1, a))
          /\ AllWhitespace(SubSeq(s, b + 1, Len(s)))
    /\ t # <<>> => (t[1] \notin Whitespace /\ t[Len(t)] \notin Whitespace)

(***************************************************************************)
(* C4: input_string reads at most one line and, when no I/O step fails, it *)
(* has returned after exactly one: the line without its leading and        *)
(* trailing whitespace, everything between kept as it is; a line of        *)
(* whitespace only, or the empty line, gives the empty text.  The line     *)
(* "  hi there  " returns "hi there".                                      *)
(***************************************************************************)
C4_OneLineTrimmed ==
    call.fn = "input_string" =>
        LET items == ReadItems
            n == Len(items)
        IN  /\ n <= 1
            /\ pc = "str_read" => n = 0
            /\ (pc = "idle" /\ ~Failed) =>
                 /\ n = 1
                 /\ result.kind = "Ok"
                 /\ IsTrimOf(result.text, items[1])
                 /\ AllWhitespace(items[1]) => result.text = <<>>
                 /\ items[1] = LineHiThere =>
                      result.text = <<"h", "i", " ", "t", "h", "e", "r", "e">>

W_C4_HiThere ==
    /\ call.fn = "input_string"
    /\ ReadItems = <<LineHiThere>>
    /\ result = OkText(<<"h", "i", " ", "t", "h", "e", "r", "e">>)
    /\ pc = "idle"

\* The commands the current call has queued, in order
IsQueue(e) == e.ev = "queue"

QueuedCmds ==
    [i \in 1..Len(SelectSeq(log, IsQueue)) |-> SelectSeq(log, IsQueue)[i].cmd]

Dashes45 == [i \in 1..45 |-> "-"]

Advance1 == Cmd("MoveToNextLine", <<>>, 1, 0)

TextCmd(t) == Cmd("Print", t, 0, 0)

\* q is: separator, one line per element of lines, separator, blank line
IsHeaderShape(q, lines) ==
    LET n == Len(lines)
    IN  /\ Len(q) = 2 * n + 5
        /\ q[1] = TextCmd(Dashes45)
        /\ q[2] = Advance1
        /\ \A i \in 1..n : q[2 * i + 1] = TextCmd(lines[i]) /\ q[2 * i + 2] = Advance1
        /\ q[2 * n + 3] = TextCmd(Dashes45)
        /\ q[2 * n + 4] = Advance1
        /\ q[2 * n + 5] = Advance1

ClaimedTitleLines(t) == IF t = <<>> THEN <<>> ELSE Split(t)

(***************************************************************************)
(* C5 (as claimed): the commands queued by header(t) are a separator line  *)
(* of 45 dashes, the lines of t split on newline in order, a separator     *)
(* line and one blank line, with zero title lines for the empty title.     *)
(***************************************************************************)
C5_Claimed_NoTitleLineWhenEmpty ==
    (call.fn = "header" /\ result.kind = "Ok") =>
        IsHeaderShape(QueuedCmds, ClaimedTitleLines(call.text))

(***************************************************************************)
(* C5 (amended): the commands queued by header(t) are a separator line of  *)
(* 45 dashes, the segments of t split on newline in order, a separator     *)
(* line and one blank line; the empty title has one segment, the empty     *)
(* one, so one empty line stands between the two separators.               *)
(***************************************************************************)
C5_HeaderShape ==
    (call.fn = "header" /\ result.kind = "Ok") =>
        /\ IsHeaderShape(QueuedCmds, Split(call.text))
        /\ call.text = <<>> =>
             QueuedCmds = <<TextCmd(Dashes45), Advance1, TextCmd(<<>>), Advance1,
                            TextCmd(Dashes45), Advance1, Advance1>>

W_C5_EmptyTitle ==
    /\ call.fn = "header"
    /\ call.text = <<>>
    /\ result.kind = "Ok"
    /\ Len(QueuedCmds) = 7

NewlineCount(s) == Cardinality({i \in 1..Len(s) : s[i] = "\n"})

RECURSIVE JoinLines(_)
JoinLines(segs) ==
    IF Len(segs) = 1 THEN segs[1]
    ELSE segs[1] \o <<"\n">> \o JoinLines(Tail(segs))

(***************************************************************************)
(* C6: emit_iter over the segments of s split on newline queues, per       *)
(* segment and in the order of s, one print of the segment followed by one *)
(* advance of the cursor by one line, and nothing else: there are as many  *)
(* advances as segments, one more than s has newlines.                     *)
(***************************************************************************)
C6_OnePrintOneAdvancePerSegment ==
    (call.fn = "emit_iter" /\ result.kind = "Ok") =>
        LET q == QueuedCmds
            n == NewlineCount(call.text) + 1
        IN  /\ Len(q) = 2 * n
            /\ \A i \in 1..n :
                  /\ q[2 * i - 1].op = "Print"
                  /\ \A j \in 1..Len(q[2 * i - 1].text) : q[2 * i - 1].text[j] # "\n"
                  /\ q[2 * i] = Advance1
            /\ JoinLines([i \in 1..n |-> q[2 * i - 1].text]) = call.text
            /\ Cardinality({i \in 1..Len(q) : q[i].op = "MoveToNextLine"}) = n

W_C6_TwoSegments ==
    /\ call.fn = "emit_iter"
    /\ call.text = <<"A", "\n">>
    /\ result.kind = "Ok"
    /\ Len(QueuedCmds) = 4

CleanTerm == Term("default", [r \in Rows |-> <<>>], FALSE, 0, 0)

EndsWith(h, suffix) ==
    /\ Len(h) >= Len(suffix)
    /\ SubSeq(h, Len(h) - Len(suffix) + 1, Len(h)) = suffix

(***************************************************************************)
(* C7: from any terminal state, clear applied once and flushed, and clear  *)
(* applied twice in a row and flushed, leave the terminal in the same      *)
(* state: default colours, empty screen, cursor hidden, cursor at (0,0).   *)
(***************************************************************************)
C7_ClearIdempotent ==
    result.kind # "Err" =>
        /\ EndsWith(history, <<"clear", "flush">>) => term = CleanTerm
        /\ EndsWith(history, <<"clear", "clear", "flush">>) => term = CleanTerm

W_C7_ClearedTwice ==
    /\ history = <<"clear", "clear", "flush">>
    /\ result.kind # "Err"
    /\ queue = <<>>

ClearList ==
    <<Cmd("ResetColor", <<>>, 0, 0), Cmd("ClearAll", <<>>, 0, 0),
      Cmd("Hide", <<>>, 0, 0), Cmd("MoveTo", <<>>, 0, 0)>>

(***************************************************************************)
(* C8: for every mode, the first four commands emit_mode queues are those  *)
(* of clear (reset colour, clear whole screen, hide cursor, move to the    *)
(* origin), before any print or cursor advance; once the frame is flushed  *)
(* the screen shows what the frame's commands draw on an empty screen from *)
(* the origin, whatever was on it before.                                  *)
(***************************************************************************)
C8_ClearBeforeFrame ==
    call.fn = "emit_mode" =>
        LET q == QueuedCmds
        IN  /\ \A i \in 1..Min(4, Len(q)) : q[i] = ClearList[i]
            /\ \A i \in 1..Len(q) :
                  q[i].op \in {"Print", "MoveToNextLine"} => i > 4
            /\ (result.kind = "Ok" /\ EndsWith(history, <<"emit_mode", "flush">>)) =>
                  /\ Len(q) > 4
                  /\ term = ApplyAll(CleanTerm, SubSeq(q, 5, Len(q)))

W_C8_SecondFrameFlushed ==
    /\ history = <<"emit_mode", "flush", "emit_mode", "flush">>
    /\ result.kind = "Ok"
    /\ call.mode.kind = "EditItem"

ReadPcs == {"u32_read", "str_read", "conf_read", "sel_read"}

(***************************************************************************)
(* C9: whenever one of the four prompts blocks on a read of the input, the *)
(* first read as well as a retry, the sink holds no queued command: all    *)
(* that was queued has been flushed to the terminal.                       *)
(***************************************************************************)
C9_NothingPendingAtRead == pc \in ReadPcs => queue = <<>>

W_C9_RetryRead ==
    /\ pc = "u32_read"
    /\ Len(ReadItems) = 2
    /\ queue = <<>>

(***************************************************************************)
(* C10: a failing queue, flush or read step is the last step of its call:  *)
(* the call has returned the error, and after the failure the log shows no *)
(* read, no queued command and no retry; a call still in its loop has seen *)
(* no failure, and a call returns an error only if a step failed.          *)
(***************************************************************************)
C10_FailureReturnsAtOnce ==
    /\ Failed =>
         /\ pc = "idle"
         /\ result = Err
         /\ IsFailure(Last(log))
         /\ \A i \in 1..(Len(log) - 1) : ~IsFailure(log[i])
    /\ pc \in ReadPcs => ~Failed
    /\ result.kind = "Err" => Failed

W_C10_ReadErrorOnRetry ==
    /\ call.fn = "input_u32"
    /\ Len(ReadItems) = 1
    /\ Last(log).ev = "read_err"
    /\ result = Err
    /\ pc = "idle"

LoopPrompts == {"input_u32", "confirmation_prompt", "select_from_list"}

\* Where a prompt that has not returned stands
ReadPcOf(fn) ==
    CASE fn = "input_u32" -> "u32_read"
      [] fn = "input_string" -> "str_read"
      [] fn = "confirmation_prompt" -> "conf_read"
      [] fn = "select_from_list" -> "sel_read"
      [] OTHER -> "idle"

\* Whether an item read answers the prompt c
Conforms(c, item) ==
    CASE c.fn = "input_u32" -> Parsable(item)
      [] c.fn = "input_string" -> TRUE
      [] c.fn = "confirmation_prompt" -> item # <<>> /\ item[1] \in {"y", "n"}
      [] c.fn = "select_from_list" -> item # <<>> /\ HasKey(c.options, item[1])
      [] OTHER -> FALSE

(***************************************************************************)
(* C11: a prompt once entered cannot be aborted.  When no I/O step has     *)
(* failed, confirmation_prompt, input_u32 and select_from_list have not    *)
(* returned as long as no item read is an answer (y or n, a parsable line, *)
(* a key of the option list): they stand at their read, whatever was read  *)
(* and however much; a call that has returned has read an answer last.     *)
(* select_from_list with an empty option list never returns.               *)
(***************************************************************************)
C11_NoReturnWithoutAnswer ==
    (call.fn \in LoopPrompts /\ ~Failed) =>
        /\ (\A i \in 1..Len(ReadItems) : ~Conforms(call, ReadItems[i]))
              => pc = ReadPcOf(call.fn)
        /\ (call.fn = "select_from_list" /\ call.options = <<>>)
              => pc = "sel_read"
        /\ pc = "idle" =>
              /\ result.kind = "Ok"
              /\ ReadItems # <<>>
              /\ Conforms(call, Last(ReadItems))

W_C11_EmptyListStillReading ==
    /\ call.fn = "select_from_list"
    /\ call.options = <<>>
    /\ Len(ReadItems) = 3
    /\ pc = "sel_read"
    /\ ~Failed

TitleWelcome ==
    <<"W", "e", "l", "c", "o", "m", "e", " ", "t", "o", " ", "T", "U", "I",
      " ", "B", "r", "i", "c", "k", "s">>

\* The rows the cursor is advanced by the commands that follow position i,
\* up to the next command that is no advance
RECURSIVE AdvanceSum(_, _)
AdvanceSum(q, i) ==
    IF i < Len(q) /\ q[i + 1].op = "MoveToNextLine"
    THEN q[i + 1].n + AdvanceSum(q, i + 1)
    ELSE 0

\* The blank lines left after the text printed at position i: the advance
\* that ends its own line is not one.
BlankLinesAfter(q, i) == AdvanceSum(q, i) - 1

\* q is: the four commands of clear, then the header with the fixed title
IsClearAndDefaultHeader(q) ==
    /\ Len(q) >= 11
    /\ SubSeq(q, 1, 4) = ClearList
    /\ IsHeaderShape(SubSeq(q, 5, 11), <<TitleWelcome>>)

(***************************************************************************)
(* C12 (as claimed): emit_mode of Default{info} queues the commands of     *)
(* clear, the header with the title "Welcome to TUI Bricks", then the      *)
(* print of info followed by two blank lines.                              *)
(***************************************************************************)
C12_Claimed_TwoBlankLines ==
    (call.fn = "emit_mode" /\ call.mode.kind = "Default" /\ result.kind = "Ok") =>
        LET q == QueuedCmds
        IN  /\ IsClearAndDefaultHeader(q)
            /\ Len(q) >= 12
            /\ q[12] = TextCmd(call.mode.info)
            /\ \A i \in 13..Len(q) : q[i].op = "MoveToNextLine"
            /\ BlankLinesAfter(q, 12) = 2

(***************************************************************************)
(* C12 (amended): emit_mode of Default{info} queues the commands of clear, *)
(* the header with the title "Welcome to TUI Bricks", then one print of    *)
(* info and one advance of the cursor by two lines, which ends the line of *)
(* info and leaves one blank line after it; once flushed, info stands on   *)
(* the fifth row, the cursor at the start of the seventh, one empty row    *)
(* between them.                                                           *)
(***************************************************************************)
C12_DefaultFrame ==
    (call.fn = "emit_mode" /\ call.mode.kind = "Default" /\ result.kind = "Ok") =>
        LET q == QueuedCmds
        IN  /\ IsClearAndDefaultHeader(q)
            /\ Len(q) = 13
            /\ q[12] = TextCmd(call.mode.info)
            /\ q[13] = Cmd("MoveToNextLine", <<>>, 2, 0)
            /\ BlankLinesAfter(q, 12) = 1
            /\ EndsWith(history, <<"emit_mode", "flush">>) =>
                  /\ term.screen[1] = TitleWelcome
                  /\ term.screen[4] = call.mode.info
                  /\ term.screen[5] = <<>>
                  /\ term.row = Min(6, MaxRow)
                  /\ term.col = 0

W_C12_DefaultFlushed ==
    /\ history = <<"emit_mode", "flush">>
    /\ call.mode.kind = "Default"
    /\ result.kind = "Ok"
    /\ term.screen[4] = <<"h", "i">>
    /\ term.row = 6

TitleViewing ==
    <<"V", "i", "e", "w", "i", "n", "g", " ", "i", "t", "e", "m", " ", "w",
      "i", "t", "h", " ", "p", "a", "r", "t", " ", "I", "D", " ">>

TitleEditing ==
    <<"N", "o", "w", " ", "e", "d", "i", "t", "i", "n", "g", " ", "i", "t",
      "e", "m", " ", "w", "i", "t", "h", " ", "p", "a", "r", "t", " ", "I",
      "D", " ">>

InstructionLine ==
    <<"u", "s", "e", " ", "a", "n", "y", " ", "o", "f", " ", "t", "h", "e",
      " ", "f", "o", "l", "l", "o", "w", "i", "n", "g", " ", "c", "o", "m",
      "m", "a", "n", "d", "s", " ", "t", "o", " ", "e", "d", "i", "t", " ",
      "t", "h", "e", " ", "i", "t", "e", "m">>

ItemTitle(kind, id) ==
    (IF kind = "EditItem" THEN TitleEditing ELSE TitleViewing) \o id

\* q is: one print of a newline-free segment and one advance by one line
\* per segment of text, in the order of text, and nothing else
IsLinesOf(q, text) ==
    LET n == NewlineCount(text) + 1
    IN  /\ Len(q) = 2 * n
        /\ \A i \in 1..n :
              /\ q[2 * i - 1].op = "Print"
              /\ NewlineCount(q[2 * i - 1].text) = 0
              /\ q[2 * i] = Advance1
        /\ JoinLines([i \in 1..n |-> q[2 * i - 1].text]) = text

\* q is the frame of an item: clear, the header with the title of the
\* kind, the item's rendering line by line, then the lines of tail
IsItemFrame(q, kind, item, tail) ==
    LET m == 2 * (NewlineCount(item.text) + 1)
    IN  /\ Len(q) = 11 + m + Len(tail)
        /\ SubSeq(q, 1, 4) = ClearList
        /\ IsHeaderShape(SubSeq(q, 5, 11), <<ItemTitle(kind, item.id)>>)
        /\ IsLinesOf(SubSeq(q, 12, 11 + m), item.text)
        /\ SubSeq(q, 12 + m, Len(q)) = tail

\* The positions up to n at which the frames f and g differ
Differences(f, g, n) == {i \in 1..n : f[i] # g[i]}

(***************************************************************************)
(* C13: the frame queued for DisplayItem{item} is clear, the header with   *)
(* the title "Viewing item with part ID <id>" and the item's rendering,    *)
(* one line per segment split on newline, in order; the frame queued for   *)
(* EditItem{item} is the same with the title "Now editing item with part   *)
(* ID <id>" and with one fixed instruction line after the rendering.  When *)
(* both are queued one after the other for the same item, the second has   *)
(* the commands of the first but for the print of the title, and the       *)
(* instruction line is the only thing added.                               *)
(***************************************************************************)
C13_EditIsDisplayPlusHint ==
    (call.fn = "emit_mode" /\ result.kind = "Ok") =>
        LET q == QueuedCmds
            item == call.mode.item
            f == SubSeq(queue, 1, Len(queue) - Len(q))
        IN  /\ call.mode.kind = "DisplayItem" =>
                  IsItemFrame(q, "DisplayItem", item, <<>>)
            /\ call.mode.kind = "EditItem" =>
                  /\ IsItemFrame(q, "EditItem", item,
                                 <<TextCmd(InstructionLine), Advance1>>)
                  /\ (/\ history = <<"emit_mode", "emit_mode">>
                       /\ Len(f) >= 7
                       /\ f[7] = TextCmd(ItemTitle("DisplayItem", item.id)))
                      => /\ Len(q) = Len(f) + 2
                         /\ Differences(q, f, Len(f)) = {7}
                         /\ q[7] = TextCmd(ItemTitle("EditItem", item.id))
                         /\ SubSeq(q, Len(f) + 1, Len(q))
                              = <<TextCmd(InstructionLine), Advance1>>

W_C13_DisplayThenEdit ==
    /\ history = <<"emit_mode", "emit_mode">>
    /\ result.kind = "Ok"
    /\ call.mode.kind = "EditItem"
    /\ Len(queue) > Len(QueuedCmds)
    /\ queue[7] = TextCmd(ItemTitle("DisplayItem", call.mode.item.id))
    /\ NewlineCount(call.mode.item.text) = 1

KeyPrompts == {"confirmation_prompt", "select_from_list"}

KeyReadPcs == {"conf_read", "sel_read"}

\* From its first read on, the call has done nothing but read, and nothing
\* is left in the sink while it reads.
OnlyReadsInBody ==
    call.fn \in KeyPrompts =>
        /\ \A i \in 1..Len(Body) : Body[i].ev \in {"read", "read_err"}
        /\ pc \in KeyReadPcs => queue = <<>>

\* A step taken from a key read leaves the sink and the terminal as they are.
KeyTurnSilent ==
    pc \in KeyReadPcs => (queue' = queue /\ term' = term)

(***************************************************************************)
(* C14: a rejected key leaves the output untouched.  In                    *)
(* confirmation_prompt and select_from_list every step from the first read *)
(* on, a rejected key, the accepted key or a failed read, queues nothing   *)
(* and writes nothing: the log of the call holds only reads after the      *)
(* flush that precedes the first read, and the sink and the terminal are   *)
(* at the return what they were at the first read.                         *)
(***************************************************************************)
C14_RejectedKeySilent == []OnlyReadsInBody /\ [][KeyTurnSilent]_vars

W_C14_TwoKeysIgnored ==
    /\ call.fn = "select_from_list"
    /\ call.options # <<>>
    /\ Len(ReadKeys) = 3
    /\ pc = "idle"
    /\ result.kind = "Ok"
    /\ queue = <<>>

InstructionSelect ==
    <<"S", "e", "l", "e", "c", "t", " ", "f", "r", "o", "m", " ", "t", "h",
      "e", " ", "l", "i", "s", "t", " ", "b", "y", " ", "t", "y", "p", "i",
      "n", "g", " ", "t", "h", "e", " ", "l", "e", "t", "t", "e", "r">>

\* The log of the current call before its first read
Prelude == SubSeq(log, 1, Len(log) - Len(Body))

\* The commands queued before the first read, in order
PreludeCmds ==
    [i \in 1..Len(SelectSeq(Prelude, IsQueue)) |->
        SelectSeq(Prelude, IsQueue)[i].cmd]

(***************************************************************************)
(* C15: when select_from_list stands at its first key read (and ever       *)
(* after) it has, before that read, queued in this order and nothing else: *)
(* the prompt, one line per segment split on newline; the fixed            *)
(* instruction line; one blank line; one line "<key>: <label>" per option  *)
(* in the order of the list, duplicates included, as many as the list is   *)
(* long; and then flushed, once, as its last step before the read.         *)
(***************************************************************************)
C15_MenuBeforeFirstRead ==
    (call.fn = "select_from_list" /\ (pc = "sel_read" \/ Body # <<>>)) =>
        LET q == PreludeCmds
            n == 2 * (NewlineCount(call.text) + 1)
            opts == call.options
        IN  /\ Len(Prelude) = Len(q) + 1
            /\ \A i \in 1..Len(q) : Prelude[i].ev = "queue"
            /\ Prelude[Len(q) + 1] = Ev("flush", NoCmd, <<>>)
            /\ Len(q) = n + 3 + 2 * Len(opts)
            /\ IsLinesOf(SubSeq(q, 1, n), call.text)
            /\ q[n + 1] = TextCmd(InstructionSelect)
            /\ q[n + 2] = Advance1
            /\ q[n + 3] = Advance1
            /\ \A i \in 1..Len(opts) :
                  /\ q[n + 2 + 2 * i]
                       = TextCmd(<<opts[i].key, ":", " ">> \o opts[i].label)
                  /\ q[n + 3 + 2 * i] = Advance1
            /\ Cardinality({i \in (n + 4)..Len(q) : q[i].op = "Print"})
                 = Len(opts)

W_C15_DuplicateKeysListed ==
    /\ call.fn = "select_from_list"
    /\ call.options = <<Opt("b", Bananas), Opt("a", Apples), Opt("b", Avocado)>>
    /\ call.text = <<"Q", "\n", "R">>
    /\ pc = "sel_read"
    /\ ReadItems = <<>>
    /\ Len(PreludeCmds) = 13

LinePrompts == {"input_u32", "input_string"}

LineReadPcs == {"u32_read", "str_read"}

ShowCursor == Cmd("Show", <<>>, 0, 0)

HideCursor == Cmd("Hide", <<>>, 0, 0)

\* The positions of the log at which the command c is issued, queued or not
Issued(c) ==
    {i \in 1..Len(log) : log[i].ev \in {"queue", "queue_err"} /\ log[i].cmd = c}

(***************************************************************************)
(* C16: at every blocking read of input_u32 and input_string the terminal  *)
(* cursor is visible: the show-cursor command is the last command queued   *)
(* before the first flush, and no hide-cursor command has been issued      *)
(* while the call reads.  On success both issue one hide-cursor command,   *)
(* as their last step before returning.  confirmation_prompt and           *)
(* select_from_list issue neither command, at any point.                   *)
(***************************************************************************)
C16_CursorShownWhileReading ==
    /\ (call.fn \in LinePrompts /\ pc \in LineReadPcs) =>
          /\ term.visible
          /\ PreludeCmds # <<>>
          /\ Last(PreludeCmds) = ShowCursor
          /\ Cardinality(Issued(ShowCursor)) = 1
          /\ Issued(HideCursor) = {}
    /\ (call.fn \in LinePrompts /\ pc = "idle" /\ result.kind = "Ok") =>
          /\ Last(log) = Ev("queue", HideCursor, <<>>)
          /\ Issued(HideCursor) = {Len(log)}
          /\ Cardinality(Issued(ShowCursor)) = 1
    /\ call.fn \in KeyPrompts =>
          /\ Issued(ShowCursor) = {}
          /\ Issued(HideCursor) = {}

W_C16_ShownForRetry ==
    /\ call.fn = "input_u32"
    /\ pc = "u32_read"
    /\ Len(ReadItems) = 1
    /\ term.visible
    /\ term.colour = "default"

(***************************************************************************)
(* C17: when input_u32 or input_string returns a value, its hide-cursor    *)
(* command is queued and not flushed: the sink holds this one command and  *)
(* nothing else, the terminal cursor is still visible, and it is the next  *)
(* flush of the sink that hides it.  When the read of the input fails, no  *)
(* hide-cursor command has been issued, the sink is empty and the cursor   *)
(* is left visible.                                                        *)
(***************************************************************************)
C17_HideLeftPending ==
    call.fn \in LinePrompts =>
        /\ (pc = "idle" /\ result.kind = "Ok") =>
              /\ queue = <<HideCursor>>
              /\ term.visible
              /\ ~ApplyAll(term, queue).visible
              /\ \A i \in 1..Len(log) :
                    log[i].ev = "flush" => i < Len(log)
        /\ (log # <<>> /\ Last(log).ev = "read_err") =>
              /\ pc = "idle"
              /\ result = Err
              /\ Issued(HideCursor) = {}
              /\ queue = <<>>
              /\ term.visible

W_C17_StringReturnedHidePending ==
    /\ call.fn = "input_string"
    /\ pc = "idle"
    /\ result.kind = "Ok"
    /\ queue = <<HideCursor>>
    /\ term.visible
    /\ term.colour = "red"

HintNumber ==
    <<"(", "I", "n", "p", "u", "t", " ", "s", "h", "o", "u", "l", "d", " ",
      "b", "e", " ", "a", " ", "n", "u", "m", "b", "e", "r", ")">>

\* A line entered with the Enter key: the echo of it moves the cursor down
\* one row.
Entered(item) ==
    item # <<>> /\ Last(item) = "\n" /\ NewlineCount(item) = 1

AllEntered == \A i \in 1..Len(ReadItems) : Entered(ReadItems[i])

\* The hint line stands on row h with the lines of the prompt on the rows
\* above it.
PromptStandsAbove(h) ==
    LET segs == Split(call.text)
        n == Len(segs)
    IN  /\ h >= n
        /\ term.screen[h] = HintNumber
        /\ \A i \in 1..n : EndsWith(term.screen[h - n + i - 1], segs[i])

\* The screen has room below the cursor: the prompt was not drawn against
\* the last row, and the echo of an entered line moves the cursor down and
\* does not scroll the screen.
RoomBelow == term.row < MaxRow

\* The cursor is at the start of the row directly below the hint, the lines
\* of the prompt above the hint.
AtInputRow ==
    /\ term.row >= 1
    /\ PromptStandsAbove(term.row - 1)
    /\ term.col = 0

\* The first read of input_u32 finds the cursor on the input row.
InputRowKept ==
    (call.fn = "input_u32" /\ pc = "u32_read" /\ ReadItems = <<>> /\ RoomBelow)
        => AtInputRow

\* A step from a read of input_u32 on the input row that reads an entered
\* line leaves the cursor on the input row or the row below it and changes
\* no other row; if it is a retry, the next read finds the cursor on the
\* input row again, and that row empty.
RetryKeepsRow ==
    (pc = "u32_read" /\ AllEntered' /\ RoomBelow /\ AtInputRow) =>
        /\ term'.row \in {term.row, term.row + 1}
        /\ \A r \in Rows \ {term.row} : term'.screen[r] = term.screen[r]
        /\ pc' = "u32_read" =>
              /\ term'.row = term.row
              /\ AtInputRow'
              /\ term'.screen[term.row] = <<>>

(***************************************************************************)
(* C18: in input_u32, as long as every line read was entered with Enter    *)
(* and so moved the cursor down one row, the cursor is at every read on    *)
(* the same row, the row directly below the hint line "(Input should be a  *)
(* number)", first read and retries alike.  The erase of a retry clears    *)
(* this input row and no other: the lines of the prompt and the hint line  *)
(* stay on the screen, and the cursor is never above the input row.  The   *)
(* first read is taken to find the cursor above the last row of the        *)
(* screen: on the last row the echo of a line scrolls the screen and does  *)
(* not move the cursor.  Stated as the first read and the step from one    *)
(* read to the next.                                                       *)
(***************************************************************************)
C18_CursorRowOfRetries == []InputRowKept /\ [][RetryKeepsRow]_vars

W_C18_SameRowAfterTwoRetries ==
    /\ call.fn = "input_u32"
    /\ call.text = <<"Q", "\n", "R">>
    /\ pc = "u32_read"
    /\ ReadItems = <<LineAbc, LineMinus5>>
    /\ term.screen[2] = HintNumber
    /\ term.row = 3

RECURSIVE Concat(_)
Concat(items) ==
    IF items = <<>> THEN <<>> ELSE Head(items) \o Concat(Tail(items))

\* One item of the input as the prompt c reads it: one key, or one line,
\* which has no newline but a last one
IsOneItem(c, item) ==
    IF c.fn \in LinePrompts
    THEN /\ item # <<>>
         /\ NewlineCount(item) <= 1
         /\ NewlineCount(item) = 1 => Last(item) = "\n"
    ELSE Len(item) = 1

\* The items the input holds for the prompt c, in order: its lines, without
\* their newlines, or its keys
AheadItems(c, buf) ==
    IF c.fn \in LinePrompts
    THEN IF Last(Split(buf)) = <<>> THEN Front(Split(buf)) ELSE Split(buf)
    ELSE [i \in 1..Len(buf) |-> <<buf[i]>>]

\* The prompt stands at a read and the input holds an answer to it, within
\* the reads left
AnswerAhead ==
    /\ pc \in ReadPcs
    /\ \E i \in 1..Min(Len(AheadItems(call, stdin)), MaxReads - nreads) :
          Conforms(call, AheadItems(call, stdin)[i])

\* A prompt that has returned a value has read an answer last and none
\* before it.
ReturnedOnFirstAnswer ==
    (pc = "idle" /\ call.fn \in LoopPrompts \cup LinePrompts /\ ~Failed) =>
        /\ ReadItems # <<>>
        /\ Conforms(call, Last(ReadItems))
        /\ \A i \in 1..(Len(ReadItems) - 1) : ~Conforms(call, ReadItems[i])

\* A step takes from the input what it reads, one item at the front of it,
\* and no more; the step that calls a prompt takes nothing.
TakesWhatItReads ==
    /\ pc = "idle" => stdin' = stdin
    /\ (pc \in ReadPcs /\ stdin # <<>>) =>
          LET new == SubSeq(ReadItems', Len(ReadItems) + 1, Len(ReadItems'))
          IN  /\ Len(new) <= 1
              /\ stdin = Concat(new) \o stdin'
              /\ new # <<>> => IsOneItem(call, new[1])

====
